---- MODULE Spec2Model ----
(***************************************************************************)
(* A model of sunnei/core/data_management.py: the atomic-data loader       *)
(* (read_atomic_data), the charge-state initialisers                       *)
(* (create_ChargeStates_dictionary, EquilChargeStates) and the reformatter *)
(* (ReformatChargeStateList).                                              *)
(*                                                                         *)
(* Reals.  A charge-state fraction is a pair <<h, e>> that stands for the  *)
(* exact value h/2 + e*1e-15.  |e| stays far below 0.25/1e-15, so the pair *)
(* is a normal form: order is lexicographic and addition is componentwise. *)
(* The thresholds of the code (1e-14, 1.0, 1.0 + 9e-10, 1 -/+ 1e-9) are    *)
(* exact in this form (the code computes them, and the sum, in double      *)
(* precision).  Log-temperatures are integers in units of 1e-6.            *)
(* Arrays are sequences and indices are 1-based: index i of the model is   *)
(* index i-1 of the Python code.                                           *)
(***************************************************************************)
EXTENDS Integers, Sequences, FiniteSets, TLC

VARIABLES files,            \* the data directory: element -> file contents or NoFile
          AtomicData,       \* the caller's atomic-data collection (None until loaded)
          last,             \* the outcome of the last call of the module
          ChargeStateList,  \* the argument of the last ReformatChargeStateList call
          reformatted       \* the outcome of the last ReformatChargeStateList call

vars == <<files, AtomicData, last, ChargeStateList, reformatted>>

----------------------------------------------------------------------------
(* Bounds of the model *)

\* number of temperature levels of a well-formed file
NTe == 2

\* ReformatChargeStateList is called with nsteps in 0..MaxSteps
MaxSteps == 1

----------------------------------------------------------------------------
(* Fixed-point reals *)

Zero == <<0, 0>>
Half == <<1, 0>>
One == <<2, 0>>
\* 1e-14, the lower threshold of the cleanup
Eps == <<0, 10>>
\* 1.0 + 9e-10, the upper threshold of the cleanup
OnePlusClamp == <<2, 900000>>
\* 1 - tol and 1 + tol with tol = 1e-9
OneMinusTol == <<2, -1000000>>
OnePlusTol == <<2, 1000000>>

Lt(a, b) == a[1] < b[1] \/ (a[1] = b[1] /\ a[2] < b[2])

Add(a, b) == <<a[1] + b[1], a[2] + b[2]>>

RECURSIVE SumFrom(_, _)
SumFrom(row, i) == IF i > Len(row) THEN Zero ELSE Add(row[i], SumFrom(row, i + 1))

\* np.sum of a one-dimensional array
NpSum(row) == SumFrom(row, 1)

----------------------------------------------------------------------------
(* Element registry, restricted to the two lightest elements *)

Elements == {"H", "He"}

AtomicNumbers == ("H" :> 1) @@ ("He" :> 2)

----------------------------------------------------------------------------
(* Files *)

NoFile == [present |-> FALSE, nte |-> 0, nelems |-> 0, temperatures |-> <<>>,
           equistate |-> <<>>, lens |-> <<>>]

\* The record lengths a file of `element` with nte temperature levels must have for
\* eigenvalues, eigenvector, eigenvector_inv, c_rate and r_rate.
GoodLens(element, nte) ==
    LET n == AtomicNumbers[element] + 1
    IN  <<nte * n, nte * n * n, nte * n * n, nte * n, nte * n>>

RECURSIVE Flatten(_)
Flatten(rows) == IF rows = <<>> THEN <<>> ELSE Head(rows) \o Flatten(Tail(rows))

\* A file whose records all have the declared shapes.
GoodFile(element, nelems, temperatures, rows) ==
    [present |-> TRUE, nte |-> Len(rows), nelems |-> nelems,
     temperatures |-> temperatures, equistate |-> Flatten(rows),
     lens |-> GoodLens(element, Len(rows))]

----------------------------------------------------------------------------
(* read_atomic_data *)

None == [dict |-> FALSE, nte |-> 0, nelems |-> 0, temperatures |-> <<>>, tab |-> <<>>]

\* ndarray.reshape((n, m)) of a flat array of n*m reals, row-major
Reshape(flat, n, m) == [i \in 1..n |-> SubSeq(flat, (i - 1) * m + 1, i * m)]

\* |a - b| <= atol + rtol*|b| with numpy's defaults rtol = 1e-5, atol = 1e-8,
\* for a and b in units of 1e-6: d*1e-6 <= 1e-8 + 1e-5*m*1e-6, that is
\* d*100000 <= 1000 + m, that is (d being an integer) d <= (1000 + m) \div 100000
IsClose(a, b) ==
    LET d == IF a < b THEN b - a ELSE a - b
        m == IF b < 0 THEN 0 - b ELSE b
    IN  d <= (1000 + m) \div 100000

\* np.allclose(a, b) of two one-dimensional arrays: "ValueError" when the shapes
\* do not broadcast, else "True" or "False".  A one-entry array broadcasts.
AllClose(a, b) ==
    IF Len(a) = Len(b) THEN
        IF \A i \in 1..Len(a) : IsClose(a[i], b[i]) THEN "True" ELSE "False"
    ELSE IF Len(b) = 1 THEN
        IF \A i \in 1..Len(a) : IsClose(a[i], b[1]) THEN "True" ELSE "False"
    ELSE IF Len(a) = 1 THEN
        IF \A i \in 1..Len(b) : IsClose(a[1], b[i]) THEN "True" ELSE "False"
    ELSE "ValueError"

\* Lines 89-96: the eight reads of one file.  The temperature record is taken as
\* it is; every other record is reshaped with nte and nstates, which raises
\* ValueError when its length differs.
RecordsFit(f, nstates) ==
    /\ Len(f.equistate) = f.nte * nstates
    /\ f.lens = <<f.nte * nstates, f.nte * nstates * nstates,
                  f.nte * nstates * nstates, f.nte * nstates, f.nte * nstates>>

\* Lines 98-106: the grid checks of an element that is not the first.
\* "" when they pass, else the exception raised.
GridCheck(atomic_data, f) ==
    IF f.nte # atomic_data.nte THEN "AssertionError"
    ELSE IF f.nelems # atomic_data.nelems THEN "AssertionError"
    ELSE LET c == AllClose(atomic_data.temperatures, f.temperatures)
         IN  IF c = "ValueError" THEN "ValueError"
             ELSE IF c = "False" THEN "AssertionError"
             ELSE ""

\* What the call hands back when it raises: an exception and no collection.
Raise(exc, element, opened) ==
    [status |-> "error", error |-> exc, element |-> element, data |-> None,
     opened |-> opened]

\* Lines 78-117: the loop over the elements, from position i on.  `opened` lists
\* the files opened so far, in order; the code closes none of them.
RECURSIVE ReadLoop(_, _, _, _, _)
ReadLoop(fs, elements, i, atomic_data, opened) ==
    IF i > Len(elements) THEN
        [status |-> "ok", error |-> "", element |-> "", data |-> atomic_data,
         opened |-> opened]
    ELSE
        LET element == elements[i]
            nstates == AtomicNumbers[element] + 1
            f == fs[element]
            op2 == Append(opened, element)
        IN  IF ~f.present THEN Raise("FileNotFoundError", element, opened)
            ELSE IF ~RecordsFit(f, nstates) THEN Raise("ValueError", element, op2)
            ELSE
                LET first == ~atomic_data.dict
                    top == IF first
                           THEN [dict |-> TRUE, nte |-> f.nte, nelems |-> f.nelems,
                                 temperatures |-> f.temperatures, tab |-> <<>>]
                           ELSE atomic_data
                    chk == IF first THEN "" ELSE GridCheck(atomic_data, f)
                    entry == [AtomicNumber |-> nstates - 1, nstates |-> nstates,
                              equistate |-> Reshape(f.equistate, f.nte, nstates)]
                IN  IF chk # "" THEN Raise(chk, element, op2)
                    ELSE ReadLoop(fs, elements, i + 1,
                                  [top EXCEPT !.tab = (element :> entry) @@ top.tab],
                                  op2)

read_atomic_data(fs, elements) == ReadLoop(fs, elements, 1, None, <<>>)

----------------------------------------------------------------------------
(* func_index_te (time_advance): the index of the grid point nearest to te, *)
(* the lower index on a tie                                                 *)

Dist(te, x) == IF te < x THEN x - te ELSE te - x

func_index_te(te, grid) ==
    CHOOSE i \in 1..Len(grid) :
        /\ \A j \in 1..Len(grid) : Dist(te, grid[i]) <= Dist(te, grid[j])
        /\ \A j \in 1..(i - 1) : Dist(te, grid[j]) > Dist(te, grid[i])

----------------------------------------------------------------------------
(* create_ChargeStates_dictionary *)

\* Lines 167-168: np.zeros(Z+1) with entry 0 set to 1
Neutral(element) == [i \in 1..(AtomicNumbers[element] + 1) |-> IF i = 1 THEN One ELSE Zero]

\* A variant that leaves the entries below 1e-14 as they are.
CleanEntryNoFloor(v) ==
    IF Lt(One, v) /\ Lt(v, OnePlusClamp) THEN One ELSE v

\* A variant that also sets an entry of exactly 1.0 + 9e-10 to 1.0.
CleanEntryClosed(v) ==
    IF Lt(v, Eps) THEN Zero
    ELSE IF Lt(One, v) /\ ~Lt(OnePlusClamp, v) THEN One
    ELSE v

\* Lines 185-188: the cleanup of one entry
CleanEntry(v) ==
    IF Lt(v, Eps) THEN Zero
    ELSE IF Lt(One, v) /\ Lt(v, OnePlusClamp) THEN One
    ELSE v

\* Lines 184-188: the loop over the entries of the selected row
CleanRow(row) == [i \in 1..Len(row) |-> CleanEntry(row[i])]

\* Line 182: equistate[TemperatureIndex,:] is a view of the table, so the writes
\* of lines 186 and 188 go to the row of the table itself.
StoreRow(AD, element, idx, row) ==
    [AD EXCEPT !.tab[element].equistate[idx] = row]

\* Line 195: the test of one element's sum
SumsToOne(val) == Lt(OneMinusTol, val) /\ Lt(val, OnePlusTol)

\* A variant that reports the last element whose sum fails the test.
RECURSIVE CheckSumsLast(_, _, _)
CheckSumsLast(elements, i, CS) ==
    IF i > Len(elements) THEN ""
    ELSE LET later == CheckSumsLast(elements, i + 1, CS)
         IN  IF later # "" THEN later
             ELSE IF ~SumsToOne(NpSum(CS[elements[i]])) THEN elements[i]
             ELSE ""

\* Lines 192-195: the first element, in the given order, whose sum fails the
\* test; "" when none does.
RECURSIVE CheckSums(_, _, _)
CheckSums(elements, i, CS) ==
    IF i > Len(elements) THEN ""
    ELSE IF ~SumsToOne(NpSum(CS[elements[i]])) THEN elements[i]
    ELSE CheckSums(elements, i + 1, CS)

Range(seq) == {seq[i] : i \in 1..Len(seq)}

\* Lines 180-188: the loop over the elements, from position i on.  CS is the
\* dictionary ChargeStates, sel the rows as they were selected, before cleanup.
RECURSIVE EquilLoop(_, _, _, _, _, _)
EquilLoop(AD, elements, i, idx, CS, sel) ==
    IF i > Len(elements) THEN [error |-> "", element |-> "", AD |-> AD, CS |-> CS, sel |-> sel]
    ELSE
        LET element == elements[i]
        IN  IF element \notin DOMAIN AD.tab THEN
                [error |-> "KeyError", element |-> element, AD |-> AD, CS |-> CS, sel |-> sel]
            ELSE IF idx > Len(AD.tab[element].equistate) THEN
                [error |-> "IndexError", element |-> element, AD |-> AD, CS |-> CS, sel |-> sel]
            ELSE
                LET row == AD.tab[element].equistate[idx]
                    cleaned == CleanRow(row)
                IN  EquilLoop(StoreRow(AD, element, idx, cleaned), elements, i + 1, idx,
                              (element :> cleaned) @@ CS, (element :> row) @@ sel)

\* The outcome of a call: what it returned or raised, the rows it selected, the
\* dictionary it had built when it ended, the collection it worked on as the call
\* left it, and the files it opened.
Outcome(status, error, element, CS, sel, computed, AD, opened) ==
    [status |-> status, error |-> error, element |-> element, ChargeStates |-> CS,
     selected |-> sel, computed |-> computed, AD |-> AD, opened |-> opened]

\* A collection passed in by the caller, in the shape of a loader's outcome.
Given(arg) == [status |-> "ok", error |-> "", element |-> "", data |-> arg, opened |-> <<>>]

\* Lines 161-197.  arg is the AtomicData argument (None when not given).
create_ChargeStates_dictionary(fs, elements, temperature, arg) ==
    LET neutral == [e \in Range(elements) |-> Neutral(e)]
        check(CS, sel, AD, opened) ==
            LET bad == CheckSums(elements, 1, CS)
            IN  IF bad # "" THEN Outcome("error", "AssertionError", bad, <<>>, sel, CS, AD, opened)
                ELSE Outcome("ok", "", "", CS, sel, CS, AD, opened)
    IN  IF temperature > 0 THEN
            LET rd == IF arg = None THEN read_atomic_data(fs, elements) ELSE Given(arg)
            IN  IF rd.status # "ok" THEN
                    Outcome("error", rd.error, rd.element, <<>>, <<>>, neutral, arg, rd.opened)
                ELSE
                    LET idx == func_index_te(temperature, rd.data.temperatures)
                        lp == EquilLoop(rd.data, elements, 1, idx, neutral, <<>>)
                    IN  IF lp.error # "" THEN
                            Outcome("error", lp.error, lp.element, <<>>, lp.sel, lp.CS, lp.AD,
                                    rd.opened)
                        ELSE check(lp.CS, lp.sel, lp.AD, rd.opened)
        ELSE check(neutral, <<>>, arg, <<>>)

----------------------------------------------------------------------------
(* EquilChargeStates *)

\* Lines 238-242: the loop over the entries of the row, from entry i on.  In the
\* elif of line 241 the second operand indexes the row with the element's symbol,
\* which raises IndexError; Python evaluates it only when the first operand,
\* ChargeStates[istate] > 1.0, is true.
RECURSIVE EquilEntries(_, _)
EquilEntries(row, i) ==
    IF i > Len(row) THEN [error |-> "", row |-> row]
    ELSE IF Lt(row[i], Eps) THEN EquilEntries([row EXCEPT ![i] = Zero], i + 1)
    ELSE IF Lt(One, row[i]) THEN [error |-> "IndexError", row |-> row]
    ELSE EquilEntries(row, i + 1)

\* Lines 235-244, for the outcome rd of getting the collection.
EquilFrom(rd, temperature, element, arg) ==
    IF rd.status # "ok" THEN
        Outcome("error", rd.error, rd.element, <<>>, <<>>, <<>>, arg, rd.opened)
    ELSE
        LET AD == rd.data
            idx == func_index_te(temperature, AD.temperatures)
        IN  IF element \notin DOMAIN AD.tab THEN
                Outcome("error", "KeyError", element, <<>>, <<>>, <<>>, AD, rd.opened)
            ELSE IF idx > Len(AD.tab[element].equistate) THEN
                Outcome("error", "IndexError", element, <<>>, <<>>, <<>>, AD, rd.opened)
            ELSE
                LET row == AD.tab[element].equistate[idx]
                    lp == EquilEntries(row, 1)
                    AD2 == StoreRow(AD, element, idx, lp.row)
                    sel == (element :> row)
                    CS == (element :> lp.row)
                IN  IF lp.error # "" THEN
                        Outcome("error", lp.error, element, <<>>, sel, CS, AD2, rd.opened)
                    ELSE Outcome("ok", "", "", CS, sel, CS, AD2, rd.opened)

\* A variant that refuses a missing collection instead of loading one.
EquilChargeStatesNoLoad(fs, temperature, element, arg) ==
    IF ~arg.dict THEN
        Outcome("error", "InvalidAtomicData", element, <<>>, <<>>, <<>>, arg, <<>>)
    ELSE EquilFrom(Given(arg), temperature, element, arg)

\* Lines 232-244.  Line 232-233: an argument that is not a dict is replaced by
\* read_atomic_data([element]).
EquilChargeStates(fs, temperature, element, arg) ==
    EquilFrom(IF ~arg.dict THEN read_atomic_data(fs, <<element>>) ELSE Given(arg),
              temperature, element, arg)

----------------------------------------------------------------------------
(* ReformatChargeStateList *)

\* Lines 222-223: row[0:ncharge] = src[0:ncharge].  The slice keeps at most
\* ncharge entries of src; numpy copies a source of ncharge entries, broadcasts
\* a source of one entry, and raises ValueError for any other length.
AssignRow(src, ncharge) ==
    LET cut == SubSeq(src, 1, IF Len(src) < ncharge THEN Len(src) ELSE ncharge)
    IN  IF Len(cut) = ncharge THEN [error |-> "", row |-> cut]
        ELSE IF Len(cut) = 1 THEN [error |-> "", row |-> [i \in 1..ncharge |-> cut[1]]]
        ELSE [error |-> "ValueError", row |-> <<>>]

\* Lines 217-224.
ReformatChargeStateList(list, elements, nsteps) ==
    LET rows(element) ==
            [istep \in 1..(nsteps + 1) |->
                AssignRow(list[istep][element], AtomicNumbers[element] + 1)]
        failed == {e \in Range(elements) :
                      \E istep \in 1..(nsteps + 1) : rows(e)[istep].error # ""}
    IN  IF failed # {} THEN [status |-> "error", error |-> "ValueError", ChargeStates |-> <<>>]
        ELSE [status |-> "ok", error |-> "",
              ChargeStates |-> [e \in Range(elements) |->
                                   [istep \in 1..(nsteps + 1) |-> rows(e)[istep].row]]]

----------------------------------------------------------------------------
(* Inputs *)

\* The shared grid of the well-formed files: log T = 4.0, 5.0, ...
Grid == [i \in 1..NTe |-> 4000000 + (i - 1) * 1000000]

\* The temperatures of a call: 0 (not given), one nearest to the first grid
\* point and one above the whole grid.
Temperatures == {0, 4200000, 4000000 + NTe * 1000000 + 100000}

ElementLists == {<<"H">>, <<"He">>, <<"H", "He">>, <<"He", "H">>}

\* Rows of an equilibrium table of hydrogen: values on and around every
\* threshold of the cleanup and of the sum test.
RowsH ==
    { <<One, Zero>>,
      <<Half, Half>>,
      <<Half, Zero>>,
      <<<<2, 500000>>, <<0, 5>>>>,       \* 1 + 5e-10, 5e-15
      <<<<2, 900000>>, <<0, -3>>>>,      \* 1 + 9e-10, -3e-15
      <<<<0, 10>>, <<2, 950000>>>>,      \* 1e-14, 1 + 9.5e-10
      <<<<2, 1000000>>, Zero>>,          \* 1 + 1e-9, 0
      <<<<2, -1000000>>, <<0, 5>>>> }    \* 1 - 1e-9, 5e-15

\* Rows of an equilibrium table of helium.
RowsHe ==
    { <<Half, Half, Zero>>,
      <<Half, Zero, Zero>>,
      <<<<0, 5>>, <<2, 500000>>, <<0, -3>>>> }

\* Data directories whose files are well formed: the tables hold a row of RowsH
\* and a row of RowsHe at one temperature level k and neutral rows at the others.
TableFiles ==
    { ("H" :> GoodFile("H", 28, Grid, [i \in 1..NTe |-> IF i = k THEN rh ELSE Neutral("H")]))
      @@ ("He" :> GoodFile("He", 28, Grid, [i \in 1..NTe |-> IF i = k THEN rhe ELSE Neutral("He")])) :
        k \in 1..NTe, rh \in RowsH, rhe \in RowsHe }

\* One element's file in the variants that matter to the loader: well formed,
\* a grid within and beyond the tolerance of Grid, a temperature record shorter
\* and longer than the declared nte, a grid whose points lie within the
\* tolerance of one another, another element count, one temperature level, a
\* short equilibrium record, a long eigenvector record, no file.
FileVariants(element) ==
    LET base == GoodFile(element, 28, Grid, [i \in 1..NTe |-> Neutral(element)])
    IN  { base,
          [base EXCEPT !.temperatures = [i \in 1..NTe |-> Grid[i] + 30]],
          [base EXCEPT !.temperatures = [i \in 1..NTe |-> Grid[i] + 50]],
          [base EXCEPT !.temperatures = <<Grid[1] + 10>>],
          [base EXCEPT !.temperatures = Append(Grid, Grid[NTe] + 1000000)],
          [base EXCEPT !.temperatures = [i \in 1..NTe |-> Grid[1] + 10 * i]],
          [base EXCEPT !.nelems = 30],
          GoodFile(element, 28, <<Grid[1]>>, <<Neutral(element)>>),
          [base EXCEPT !.equistate = Tail(@)],
          [base EXCEPT !.lens[2] = @ + 1],
          NoFile }

LoaderFiles == { ("H" :> fh) @@ ("He" :> fhe) : fh \in FileVariants("H"), fhe \in FileVariants("He") }

\* The snapshots a time advance can hand to the reformatter: per step and
\* element a distribution of 0 to Z+2 entries.
Distributions(element) ==
    UNION { [1..n -> {Zero, One}] : n \in 0..(AtomicNumbers[element] + 2) }

----------------------------------------------------------------------------
(* The calls *)

NoCall ==
    [op |-> "none", elements |-> <<>>, temperature |-> 0, supplied |-> FALSE,
     status |-> "", error |-> "", element |-> "", data |-> None, ChargeStates |-> <<>>,
     selected |-> <<>>, computed |-> <<>>, mutated |-> FALSE, opened |-> <<>>,
     stillOpen |-> {}]

NoReformat == [elements |-> <<>>, nsteps |-> 0, status |-> "", error |-> "", ChargeStates |-> <<>>]

\* The files of a call that can still be open when it ends.  The code closes no
\* file: the last one opened is still bound to H; an earlier one lost its last
\* reference when H was rebound and is closed whenever the runtime finalises it.
StillOpenChoices(opened) ==
    IF opened = <<>> THEN {{}}
    ELSE { {opened[Len(opened)]} \cup S :
             S \in SUBSET {opened[i] : i \in 1..(Len(opened) - 1)} }

\* AtomicData = read_atomic_data(elements)
Load(elements) ==
    \E r \in {read_atomic_data(files, elements)} :
        /\ AtomicData' = IF r.status = "ok" THEN r.data ELSE AtomicData
        /\ \E open \in StillOpenChoices(r.opened) :
               last' = [NoCall EXCEPT !.op = "read", !.elements = elements,
                                      !.status = r.status, !.error = r.error,
                                      !.element = r.element, !.data = r.data,
                                      !.opened = r.opened, !.stillOpen = open]
        /\ UNCHANGED <<files, ChargeStateList, reformatted>>

\* create_ChargeStates_dictionary(elements, temperature[, AtomicData])
Create(elements, temperature, supplied) ==
    /\ supplied => AtomicData.dict
    /\ \E r \in {create_ChargeStates_dictionary(files, elements, temperature,
                                                 IF supplied THEN AtomicData ELSE None)} :
        /\ AtomicData' = IF supplied THEN r.AD ELSE AtomicData
        /\ \E open \in StillOpenChoices(r.opened) :
               last' = [NoCall EXCEPT !.op = "create", !.elements = elements,
                                      !.temperature = temperature, !.supplied = supplied,
                                      !.status = r.status, !.error = r.error,
                                      !.element = r.element,
                                      !.ChargeStates = r.ChargeStates,
                                      !.selected = r.selected, !.computed = r.computed,
                                      !.mutated = (supplied /\ r.AD # AtomicData),
                                      !.opened = r.opened, !.stillOpen = open]
        /\ UNCHANGED <<files, ChargeStateList, reformatted>>

\* EquilChargeStates(temperature, element[, AtomicData])
Equil(temperature, element, supplied) ==
    /\ supplied => AtomicData.dict
    /\ \E r \in {EquilChargeStates(files, temperature, element,
                                    IF supplied THEN AtomicData ELSE None)} :
        /\ AtomicData' = IF supplied THEN r.AD ELSE AtomicData
        /\ \E open \in StillOpenChoices(r.opened) :
               last' = [NoCall EXCEPT !.op = "equil", !.elements = <<element>>,
                                      !.temperature = temperature, !.supplied = supplied,
                                      !.status = r.status, !.error = r.error,
                                      !.element = r.element,
                                      !.ChargeStates = r.ChargeStates,
                                      !.selected = r.selected, !.computed = r.computed,
                                      !.mutated = (supplied /\ r.AD # AtomicData),
                                      !.opened = r.opened, !.stillOpen = open]
        /\ UNCHANGED <<files, ChargeStateList, reformatted>>

\* reformatted = ReformatChargeStateList(ChargeStateList, elements, nsteps), for
\* the arguments the caller has at hand
Reformat ==
    LET r == ReformatChargeStateList(ChargeStateList, reformatted.elements, reformatted.nsteps)
    IN  /\ reformatted' = [reformatted EXCEPT !.status = r.status, !.error = r.error,
                                              !.ChargeStates = r.ChargeStates]
        /\ UNCHANGED <<files, AtomicData, last, ChargeStateList>>

----------------------------------------------------------------------------
(* Specifications *)

Init ==
    /\ files \in TableFiles
    /\ AtomicData = None
    /\ last = NoCall
    /\ ChargeStateList = <<>>
    /\ reformatted = NoReformat

DoLoad == \E elements \in ElementLists : Load(elements)

DoCreate ==
    \E elements \in ElementLists, temperature \in Temperatures, supplied \in BOOLEAN :
        Create(elements, temperature, supplied)

DoEquil ==
    \E temperature \in Temperatures \ {0}, element \in Elements, supplied \in BOOLEAN :
        Equil(temperature, element, supplied)

Next == DoLoad \/ DoCreate \/ DoEquil

Spec == Init /\ [][Next]_vars

InitLoader ==
    /\ files \in LoaderFiles
    /\ AtomicData = None
    /\ last = NoCall
    /\ ChargeStateList = <<>>
    /\ reformatted = NoReformat

SpecLoader == InitLoader /\ [][Next]_vars

\* The caller holds a list of nsteps+1 snapshots of one element.
InitReformat ==
    /\ files = ("H" :> NoFile) @@ ("He" :> NoFile)
    /\ AtomicData = None
    /\ last = NoCall
    /\ \E element \in Elements, nsteps \in 0..MaxSteps :
           /\ ChargeStateList \in [1..(nsteps + 1) -> [{element} -> Distributions(element)]]
           /\ reformatted = [NoReformat EXCEPT !.elements = <<element>>, !.nsteps = nsteps]

NextReformat == Reformat

SpecReformat == InitReformat /\ [][NextReformat]_vars

----------------------------------------------------------------------------
(* Properties *)

IsInitEquilibrium == last.op = "create" /\ last.temperature > 0

\* the 1-based positions of a sequence
Positions(seq) == 1..Len(seq)

\* C1: equilibrium initialisation with a supplied collection hands back a copy of
\* the equilibrium row: the call changes no entry of any element's equilibrium
\* table in the supplied collection, also when the cleanup changed entries of the
\* distribution it returned.
C1_SourceTableUntouched ==
    (IsInitEquilibrium /\ last.supplied) => ~last.mutated

\* A distribution sums to within 1e-9 of 1.0 (bounds included), has no entry
\* below 0 and no entry above 1.0.
IsProbability(d) ==
    /\ ~Lt(NpSum(d), OneMinusTol) /\ ~Lt(OnePlusTol, NpSum(d))
    /\ \A i \in Positions(d) : ~Lt(d[i], Zero) /\ ~Lt(One, d[i])

\* C2 (as stated): every distribution returned by equilibrium initialisation and
\* by EquilChargeStates sums to within 1e-9 of 1.0, has every entry >= 0 and no
\* entry above 1.0, whatever the table holds.
C2_ResultIsProbability ==
    (last.status = "ok" /\ (IsInitEquilibrium \/ last.op = "equil")) =>
        \A e \in DOMAIN last.ChargeStates : IsProbability(last.ChargeStates[e])

\* C2 (amended): every distribution returned by equilibrium initialisation sums to
\* strictly within 1e-9 of 1.0, has every entry >= 0, and an entry above 1.0 lies
\* in [1.0 + 9e-10, 1.0 + 1e-9); every distribution returned by EquilChargeStates
\* has every entry >= 0 and no entry above 1.0, and its sum is not tested.
C2_ResultBounds ==
    /\ (last.status = "ok" /\ IsInitEquilibrium) =>
           \A e \in DOMAIN last.ChargeStates :
               LET d == last.ChargeStates[e]
               IN  /\ Lt(OneMinusTol, NpSum(d)) /\ Lt(NpSum(d), OnePlusTol)
                   /\ \A i \in Positions(d) :
                          /\ ~Lt(d[i], Zero)
                          /\ Lt(One, d[i]) => (~Lt(d[i], OnePlusClamp) /\ Lt(d[i], OnePlusTol))
    /\ (last.status = "ok" /\ last.op = "equil") =>
           \A e \in DOMAIN last.ChargeStates :
               \A i \in Positions(last.ChargeStates[e]) :
                   ~Lt(last.ChargeStates[e][i], Zero) /\ ~Lt(One, last.ChargeStates[e][i])

\* C2 witness: equilibrium initialisation returned a distribution in which the
\* cleanup zeroed a negative entry and left an entry above 1.0.
C2_Witness ==
    /\ last.status = "ok" /\ IsInitEquilibrium
    /\ \E e \in DOMAIN last.ChargeStates :
           /\ \E i \in Positions(last.ChargeStates[e]) : Lt(One, last.ChargeStates[e][i])
           /\ \E i \in Positions(last.ChargeStates[e]) :
                  Lt(last.selected[e][i], Zero) /\ last.ChargeStates[e][i] = Zero

\* The cleanup rule with the interval (1.0, 1.0 + 9e-10] closed on the right.
RuleClosed(v) ==
    IF Lt(v, Eps) THEN Zero
    ELSE IF Lt(One, v) /\ (Lt(v, OnePlusClamp) \/ v = OnePlusClamp) THEN One
    ELSE v

\* The cleanup rule with the interval (1.0, 1.0 + 9e-10) open on the right.
RuleOpen(v) ==
    IF Lt(v, Eps) THEN Zero
    ELSE IF Lt(One, v) /\ Lt(v, OnePlusClamp) THEN One
    ELSE v

\* C3 (as stated): the cleanup of equilibrium initialisation maps each entry v of
\* the selected row on its own: v < 1e-14 to 0.0, v in (1.0, 1.0 + 9e-10], the
\* upper end included, to 1.0, and any other v to itself.
C3_CleanupClosedInterval ==
    IsInitEquilibrium =>
        \A e \in DOMAIN last.selected :
            /\ Len(last.computed[e]) = Len(last.selected[e])
            /\ \A i \in Positions(last.selected[e]) :
                   last.computed[e][i] = RuleClosed(last.selected[e][i])

\* C3 (amended): the cleanup of equilibrium initialisation maps each entry v of
\* the selected row on its own: v < 1e-14 to 0.0, v strictly between 1.0 and
\* 1.0 + 9e-10 to 1.0, and any other v, 1.0 + 9e-10 itself included, to itself.
C3_CleanupOpenInterval ==
    IsInitEquilibrium =>
        \A e \in DOMAIN last.selected :
            /\ Len(last.computed[e]) = Len(last.selected[e])
            /\ \A i \in Positions(last.selected[e]) :
                   last.computed[e][i] = RuleOpen(last.selected[e][i])

\* C3 witness: equilibrium initialisation cleaned a row that holds exactly
\* 1.0 + 9e-10 and an entry below 1e-14.
C3_Witness ==
    /\ IsInitEquilibrium
    /\ \E e \in DOMAIN last.selected :
           /\ \E i \in Positions(last.selected[e]) :
                  last.selected[e][i] = OnePlusClamp /\ last.computed[e][i] = OnePlusClamp
           /\ \E i \in Positions(last.selected[e]) :
                  Lt(last.selected[e][i], Eps) /\ last.computed[e][i] = Zero

\* The call got as far as the test of the sums: every requested element has its
\* distribution (the neutral ones when no temperature was given).
C4_Reached ==
    last.op = "create" /\ (last.temperature <= 0 \/ DOMAIN last.selected = Range(last.elements))

\* The positions, in the given element order, of the elements whose distribution
\* does not sum to a value strictly between 1 - 1e-9 and 1 + 1e-9.
C4_Offenders ==
    { i \in Positions(last.elements) :
        LET val == NpSum(last.computed[last.elements[i]])
        IN  ~(Lt(OneMinusTol, val) /\ Lt(val, OnePlusTol)) }

\* C4: create_ChargeStates_dictionary returns a collection only if every requested
\* element's cleaned distribution sums to a value strictly between 1 - 1e-9 and
\* 1 + 1e-9; otherwise it fails with the assertion that names the first offending
\* element in the given order, and returns no collection.
C4_NormalizationCheck ==
    /\ C4_Reached =>
           IF C4_Offenders = {}
           THEN /\ last.status = "ok"
                /\ DOMAIN last.ChargeStates = Range(last.elements)
                /\ \A e \in Range(last.elements) : last.ChargeStates[e] = last.computed[e]
           ELSE /\ last.status = "error" /\ last.error = "AssertionError"
                /\ \E i \in C4_Offenders :
                       /\ last.element = last.elements[i]
                       /\ \A j \in C4_Offenders : i <= j
                /\ DOMAIN last.ChargeStates = {}
    /\ (last.op = "create" /\ last.status = "ok") => (C4_Reached /\ C4_Offenders = {})

\* C4 witness: equilibrium initialisation of two elements failed with both sums
\* out of range, naming the first of the two.
C4_Witness ==
    /\ IsInitEquilibrium /\ C4_Reached
    /\ Len(last.elements) = 2 /\ C4_Offenders = {1, 2}
    /\ last.status = "error" /\ last.element = last.elements[1]

\* C5 (as stated): EquilChargeStates never loads atomic data: called without a
\* collection it fails with InvalidAtomicData and opens no file.
C5_NoAutoLoad ==
    (last.op = "equil" /\ ~last.supplied) =>
        (last.status = "error" /\ last.error = "InvalidAtomicData" /\ last.opened = <<>>)

\* C5 (amended): called without a collection, EquilChargeStates loads the atomic
\* data of its element itself: it opens that element's file when the file exists
\* and fails as the loader fails when it does not; it never fails with
\* InvalidAtomicData.
C5_AutoLoad ==
    (last.op = "equil" /\ ~last.supplied) =>
        /\ last.error # "InvalidAtomicData"
        /\ IF files[last.elements[1]].present
           THEN last.opened = last.elements
           ELSE last.opened = <<>> /\ last.status = "error" /\ last.error = "FileNotFoundError"

\* C5 witness: EquilChargeStates, called without a collection, read the file of
\* its element and returned a distribution.
C5_Witness ==
    /\ last.op = "equil" /\ ~last.supplied
    /\ last.status = "ok" /\ last.opened = last.elements

\* C6: for the row it selects, EquilChargeStates returns the distribution that the
\* cleanup of equilibrium initialisation makes of that row, also when the row
\* holds an entry above 1.0.
C6_SameAsInitEquilibrium ==
    (last.op = "equil" /\ DOMAIN last.selected # {}) =>
        /\ last.status = "ok"
        /\ \A e \in DOMAIN last.selected : last.ChargeStates[e] = CleanRow(last.selected[e])

\* Two temperature records are the same grid within the tolerance: as many
\* entries, and each entry close to its counterpart.
SameGrid(a, b) == Len(a) = Len(b) /\ \A i \in Positions(a) : IsClose(a[i], b[i])

\* C7: read_atomic_data either returns a collection that holds every requested
\* element, each read from a file with the grid length, the element count and
\* (within the tolerance) the temperature grid of the first element's file, or it
\* fails and returns no collection.
C7_AllOrNothing ==
    last.op = "read" =>
        IF last.status = "ok"
        THEN /\ DOMAIN last.data.tab = Range(last.elements)
             /\ \A e \in Range(last.elements) :
                    LET f == files[e]
                        g == files[last.elements[1]]
                    IN  /\ f.nte = g.nte /\ f.nelems = g.nelems
                        /\ SameGrid(g.temperatures, f.temperatures)
        ELSE /\ last.data = None
             /\ last.error \in {"FileNotFoundError", "ValueError", "AssertionError"}

\* C8: read_atomic_data fails when a record of a file has not the length that the
\* declared grid length N and the element's Z+1 imply: in a collection it
\* returns, the temperature grid has N entries and every table has N rows.
C8_GridMatchesTables ==
    (last.op = "read" /\ last.status = "ok") =>
        /\ Len(last.data.temperatures) = last.data.nte
        /\ \A e \in Range(last.elements) :
               /\ Len(last.data.tab[e].equistate) = last.data.nte
               /\ Len(files[e].temperatures) = files[e].nte

\* C9: ReformatChargeStateList fails when some step's distribution of a requested
\* element has a length other than Z+1, shorter or longer; else it returns the
\* array whose row i is step i's distribution.
C9_ShapeMismatch ==
    reformatted.status # "" =>
        \A e \in Range(reformatted.elements) :
            IF \E i \in Positions(ChargeStateList) :
                   Len(ChargeStateList[i][e]) # AtomicNumbers[e] + 1
            THEN reformatted.status = "error"
            ELSE /\ reformatted.status = "ok"
                 /\ \A i \in Positions(ChargeStateList) :
                        reformatted.ChargeStates[e][i] = ChargeStateList[i][e]

\* C10: when read_atomic_data ends, by returning or by failing, no file that it
\* opened is still open.
C10_FilesReleased ==
    last.op = "read" => last.stillOpen = {}

====
